---- MODULE Spec2Model ----
(***************************************************************************)
(* Model of the Vive Lighthouse light-pulse decoder, src/src/vl_light.cpp. *)
(*                                                                         *)
(* Timestamps are uint32_t and epochs are doubles of up to 33 bits, which  *)
(* is wider than the integers of the model checker.  A tick count is       *)
(* therefore kept exactly as a pair <<h, l>> standing for h * 2^16 + l     *)
(* with 0 <= l < 2^16 (h may be negative).  An epoch (a double that is     *)
(* always a multiple of 1/2) is kept as the pair standing for twice its    *)
(* value.  Lengths (uint16_t) and counters are plain integers.             *)
(***************************************************************************)
EXTENDS Integers, Sequences, FiniteSets, TLC

VARIABLES D, pulse_inds, sweep_inds, last_pulse_epoch, seq, current_sweep,
          pulse_range, pulses, sweeps, pc, feed, gen, call, ret

vars == <<D, pulse_inds, sweep_inds, last_pulse_epoch, seq, current_sweep,
          pulse_range, pulses, sweeps, pc, feed, gen, call, ret>>

decoder_vars == <<D, pulse_inds, sweep_inds, last_pulse_epoch, seq,
                  current_sweep, pulse_range, pulses, sweeps, pc, feed, gen>>

----------------------------------------------------------------------------
(* Exact arithmetic on wide tick counts                                    *)

Limb == 2^16

WNorm(h, l) == <<h + (l \div Limb), l % Limb>>

W(n) == WNorm(0, n)

WAdd(a, b) == WNorm(a[1] + b[1], a[2] + b[2])

WSub(a, b) == WNorm(a[1] - b[1], a[2] - b[2])

WLt(a, b) == a[1] < b[1] \/ (a[1] = b[1] /\ a[2] < b[2])

WLe(a, b) == a = b \/ WLt(a, b)

WZero == <<0, 0>>

WNeg(a) == WSub(WZero, a)

WAbs(a) == IF WLt(a, WZero) THEN WNeg(a) ELSE a

WMin(a, b) == IF WLt(b, a) THEN b ELSE a

WMax(a, b) == IF WLt(a, b) THEN b ELSE a

\* conversion of an integer value to uint32_t: reduction modulo 2^32
ToU32(a) == <<a[1] % Limb, a[2]>>

UINT32_MAX == <<Limb - 1, Limb - 1>>

\* half of a wide value, rounded toward zero (double -> int64_t conversion
\* of a value that is a multiple of 1/2)
WHalfTrunc(a) ==
    LET neg == WLt(a, WZero)
        m   == IF neg THEN WNeg(a) ELSE a
        q   == WNorm(m[1] \div 2, (m[1] % 2) * (Limb \div 2) + (m[2] \div 2))
    IN  IF neg THEN WNeg(q) ELSE q

WDouble(a) == WAdd(a, a)

----------------------------------------------------------------------------
(* Data: a sample is [timestamp |-> wide uint32, sensor_id |-> 0..255,     *)
(* length |-> 0..65535]; a sample group is a vl_light_sample_group, whose  *)
(* epoch field holds twice the epoch.                                      *)

Sample(t, id, len) == [timestamp |-> t, sensor_id |-> id, length |-> len]

\* the character '\0' of a value-initialised group
NUL == "nul"

Group(ch, sw, ep, sk, sq, smp) ==
    [channel |-> ch, sweep |-> sw, epoch |-> ep, skip |-> sk, seq |-> sq,
     samples |-> smp]

\* vl_light_sample_group(): every member zero, no samples
EmptyGroup == Group(NUL, NUL, WZero, 0, 0, <<>>)

isempty(g) == g.samples = <<>>

subset(S, indices) == [k \in 1..Len(indices) |-> S[indices[k]]]

IntLess(a, b) == a < b

\* double median_timestamp(samples): twice the median, exactly
MedianOfSortedTimes(ts, size) ==
    IF size % 2 = 0
    THEN WAdd(ts[size \div 2], ts[size \div 2 + 1])
    ELSE WDouble(ts[size \div 2 + 1])

median_timestamp(samples) ==
    MedianOfSortedTimes(
        SortSeq([k \in 1..Len(samples) |-> samples[k].timestamp], WLt),
        Len(samples))

\* int64_t median_length(samples)
MedianOfSortedLengths(ls, size) ==
    IF size % 2 = 0
    THEN (ls[size \div 2] + ls[size \div 2 + 1]) \div 2
    ELSE ls[size \div 2 + 1]

median_length(samples) ==
    MedianOfSortedLengths(
        SortSeq([k \in 1..Len(samples) |-> samples[k].length], IntLess),
        Len(samples))

PulseRow(d, sk, sw, da) == [duration |-> d, skip |-> sk, sweep |-> sw, data |-> da]

pulse_table ==
    << PulseRow(2500, -1, -1, -1),
       PulseRow(3000, 0, 0, 0),
       PulseRow(3500, 0, 1, 0),
       PulseRow(4000, 0, 0, 1),
       PulseRow(4500, 0, 1, 1),
       PulseRow(5000, 1, 0, 0),
       PulseRow(5500, 1, 1, 0),
       PulseRow(6000, 1, 0, 1),
       PulseRow(6500, 1, 1, 1),
       PulseRow(7000, -1, -1, -1) >>

\* half-width of the window of a table row
PulseTolerance == 250

\* the class returned when no row matches: lighthouse_sync_pulse()
NoPulseClass == PulseRow(0, -1, -1, -1)

\* mutant: the window includes its ends
RowMatches_Closed(pulselen, i) ==
    /\ pulselen >= pulse_table[i].duration - PulseTolerance
    /\ pulselen <= pulse_table[i].duration + PulseTolerance

RowMatches(pulselen, i) ==
    /\ pulselen > pulse_table[i].duration - PulseTolerance
    /\ pulselen < pulse_table[i].duration + PulseTolerance

\* the first row of the table that matches, if any
FirstRow(hits) ==
    IF hits = {}
    THEN NoPulseClass
    ELSE pulse_table[CHOOSE i \in hits : \A j \in hits : i <= j]

lookup_pulse_class(pulselen) ==
    FirstRow({i \in 1..Len(pulse_table) : RowMatches(pulselen, i)})

ClassTuple(pulse) == <<pulse.skip, pulse.sweep, pulse.data>>

\* uint16_t pulselen = median_length(S); the class of that length
decode_pulse(S) == ClassTuple(lookup_pulse_class(median_length(S) % 65536))

VL_TICK_RATE == 48000000

VL_ROTOR_RPS == 60

ChannelSpace == 20000

ChannelTolerance == 4000

\* char channel_detect(uint32_t last_pulse_time, double new_pulse_time);
\* new_pulse_time is given doubled
\* int64_t period = VL_TICK_RATE / VL_ROTOR_RPS / 2
ChannelPeriod == (VL_TICK_RATE \div VL_ROTOR_RPS) \div 2

\* mutant: the window includes its ends
NearGap_Closed(dt, gap) == WLe(WAbs(WSub(dt, W(gap))), W(ChannelTolerance))

\* abs(dt - gap) < 4000
NearGap(dt, gap) == WLt(WAbs(WSub(dt, W(gap))), W(ChannelTolerance))

\* mutant: the B window is centred on period + space
ChannelOfGap_WrongB(dt) ==
    IF NearGap(dt, ChannelPeriod) THEN "A"
    ELSE IF NearGap(dt, ChannelPeriod + ChannelSpace) THEN "B"
    ELSE IF NearGap(dt, ChannelSpace) THEN "C"
    ELSE "e"

ChannelOfGap(dt) ==
    IF NearGap(dt, ChannelPeriod) THEN "A"
    ELSE IF NearGap(dt, ChannelPeriod - ChannelSpace) THEN "B"
    ELSE IF NearGap(dt, ChannelSpace) THEN "C"
    ELSE "e"

\* int64_t dt = new_pulse_time - last_pulse_time
PulseGap(last_pulse_time, new_pulse_time) ==
    WHalfTrunc(WSub(new_pulse_time, WDouble(last_pulse_time)))

channel_detect(last_pulse_time, new_pulse_time) ==
    ChannelOfGap(PulseGap(last_pulse_time, new_pulse_time))

SweepKey(sweepi) == <<"e", "H", "V">>[sweepi + 2]

\* process_pulse_set(S, int64_t last_pulse); last_pulse is the wide integer
PulseOf(dp, t, last_pulse) ==
    Group(channel_detect(ToU32(last_pulse), t), SweepKey(dp[2]), t, dp[1], 0,
          <<>>)

process_pulse_set(S, last_pulse) ==
    PulseOf(decode_pulse(S), median_timestamp(S), last_pulse)

MinPulseSamples == 5

\* mutant: the channel is not tested
PulseInvalid_SizeOnly(pulse, pulse_samples) ==
    Len(pulse_samples) < MinPulseSamples

PulseInvalid(pulse, pulse_samples) ==
    pulse.channel = "e" \/ Len(pulse_samples) < MinPulseSamples

\* mutant: the rotor is not tested
CountsSequence_AnyRotor(pulse) ==
    pulse.channel = "A" \/ pulse.channel = "B"

CountsSequence(pulse) ==
    (pulse.channel = "A" \/ pulse.channel = "B") /\ pulse.sweep = "H"

\* returns <<last_pulse_epoch, current_sweep, seq, out_pulse>>
NextSeq(pulse, sq) == IF CountsSequence(pulse) THEN sq + 1 ELSE sq

\* mutant: an invalid pulse resets the sequence counter too
PulseState_ResetsSeq(pulse, pulse_samples, cur, sq) ==
    IF PulseInvalid(pulse, pulse_samples)
    THEN <<pulse.epoch, EmptyGroup, 0, EmptyGroup>>
    ELSE IF pulse.skip = 0
         THEN <<pulse.epoch,
                [pulse EXCEPT !.samples = pulse_samples],
                NextSeq(pulse, sq),
                Group(pulse.channel, pulse.sweep, pulse.epoch, 0,
                      NextSeq(pulse, sq), pulse_samples)>>
         ELSE <<pulse.epoch, cur, sq, EmptyGroup>>

\* mutant: the pulse starts a sweep unless skip = 1
PulseState_EmitsUnclassified(pulse, pulse_samples, cur, sq) ==
    IF PulseInvalid(pulse, pulse_samples)
    THEN <<pulse.epoch, EmptyGroup, sq, EmptyGroup>>
    ELSE IF pulse.skip # 1
         THEN <<pulse.epoch,
                [pulse EXCEPT !.samples = pulse_samples],
                NextSeq(pulse, sq),
                Group(pulse.channel, pulse.sweep, pulse.epoch, 0,
                      NextSeq(pulse, sq), pulse_samples)>>
         ELSE <<pulse.epoch, cur, sq, EmptyGroup>>

\* mutant: an invalid pulse leaves current_sweep as it is
PulseState_InvalidKeeps(pulse, pulse_samples, cur, sq) ==
    IF PulseInvalid(pulse, pulse_samples)
    THEN <<pulse.epoch, cur, sq, EmptyGroup>>
    ELSE IF pulse.skip = 0
         THEN <<pulse.epoch,
                [pulse EXCEPT !.samples = pulse_samples],
                NextSeq(pulse, sq),
                Group(pulse.channel, pulse.sweep, pulse.epoch, 0,
                      NextSeq(pulse, sq), pulse_samples)>>
         ELSE <<pulse.epoch, cur, sq, EmptyGroup>>

\* mutant: a skip pulse moves the sequence counter
PulseState_SkipCounts(pulse, pulse_samples, cur, sq) ==
    IF PulseInvalid(pulse, pulse_samples)
    THEN <<pulse.epoch, EmptyGroup, sq, EmptyGroup>>
    ELSE IF pulse.skip = 0
         THEN <<pulse.epoch,
                [pulse EXCEPT !.samples = pulse_samples],
                NextSeq(pulse, sq),
                Group(pulse.channel, pulse.sweep, pulse.epoch, 0,
                      NextSeq(pulse, sq), pulse_samples)>>
         ELSE <<pulse.epoch, cur, NextSeq(pulse, sq), EmptyGroup>>

\* mutant: a skip pulse clears current_sweep
PulseState_SkipClears(pulse, pulse_samples, cur, sq) ==
    IF PulseInvalid(pulse, pulse_samples)
    THEN <<pulse.epoch, EmptyGroup, sq, EmptyGroup>>
    ELSE IF pulse.skip = 0
         THEN <<pulse.epoch,
                [pulse EXCEPT !.samples = pulse_samples],
                NextSeq(pulse, sq),
                Group(pulse.channel, pulse.sweep, pulse.epoch, 0,
                      NextSeq(pulse, sq), pulse_samples)>>
         ELSE <<pulse.epoch, EmptyGroup, sq, EmptyGroup>>

\* the state machine, given the decoded pulse
PulseState(pulse, pulse_samples, cur, sq) ==
    IF PulseInvalid(pulse, pulse_samples)
    THEN <<pulse.epoch, EmptyGroup, sq, EmptyGroup>>
    ELSE IF pulse.skip = 0
         THEN <<pulse.epoch,
                [pulse EXCEPT !.samples = pulse_samples],
                NextSeq(pulse, sq),
                Group(pulse.channel, pulse.sweep, pulse.epoch, 0,
                      NextSeq(pulse, sq), pulse_samples)>>
         ELSE <<pulse.epoch, cur, sq, EmptyGroup>>

\* mutant: an invalid pulse leaves last_pulse_epoch as it is
update_pulse_state_InvalidKeepsEpoch(pulse_samples, lpe, cur, sq) ==
    IF PulseInvalid(process_pulse_set(pulse_samples, WHalfTrunc(lpe)), pulse_samples)
    THEN <<lpe, EmptyGroup, sq, EmptyGroup>>
    ELSE PulseState(process_pulse_set(pulse_samples, WHalfTrunc(lpe)),
                    pulse_samples, cur, sq)

update_pulse_state(pulse_samples, lpe, cur, sq) ==
    PulseState(process_pulse_set(pulse_samples, WHalfTrunc(lpe)),
               pulse_samples, cur, sq)

----------------------------------------------------------------------------
(* The processing loop of process_lighthouse_samples.  D is the part of    *)
(* the input consumed so far; indices into D are 1-based.                  *)

SweepLengthMax == 2000

\* sample.timestamp + sample.length in uint32_t arithmetic
SampleEnd(sample) == ToU32(WAdd(sample.timestamp, W(sample.length)))

EmptyRange == <<UINT32_MAX, WZero>>

\* a flush of the pulse set through the state machine
Flush(stream) ==
    update_pulse_state(subset(stream, pulse_inds), last_pulse_epoch,
                       current_sweep, seq)

\* mutant: a threshold of 3000 ticks
IsSweepSample_Below3000(sample) == sample.length < 3000

IsSweepSample(sample) == sample.length < SweepLengthMax

\* mutant: the end of the sample is not tested
InPulseSet_StartOnly(sample) ==
    \/ pulse_inds = <<>>
    \/ WLe(sample.timestamp, pulse_range[2])

InPulseSet(sample) ==
    \/ pulse_inds = <<>>
    \/ /\ WLe(sample.timestamp, pulse_range[2])
       /\ WLe(pulse_range[1], SampleEnd(sample))

\* mutant: a sweep sample is collected whatever current_sweep is
SweepBranch_NoContextTest(sample, flushed, r, cur) ==
    /\ D' = Append(D, sample)
    /\ last_pulse_epoch' = IF flushed THEN r[1] ELSE last_pulse_epoch
    /\ current_sweep' = cur
    /\ seq' = IF flushed THEN r[3] ELSE seq
    /\ pulse_inds' = <<>>
    /\ pulse_range' = IF flushed THEN EmptyRange ELSE pulse_range
    /\ pulses' = IF flushed /\ ~isempty(r[4])
                 THEN Append(pulses, r[4]) ELSE pulses
    /\ sweep_inds' = Append(sweep_inds, Len(D) + 1)
    /\ UNCHANGED <<sweeps, pc>>

\* the sweep branch; r is the result of the flush, used when flushed
SweepBranch(sample, flushed, r, cur) ==
    /\ D' = Append(D, sample)
    /\ last_pulse_epoch' = IF flushed THEN r[1] ELSE last_pulse_epoch
    /\ current_sweep' = cur
    /\ seq' = IF flushed THEN r[3] ELSE seq
    /\ pulse_inds' = <<>>
    /\ pulse_range' = IF flushed THEN EmptyRange ELSE pulse_range
    /\ pulses' = IF flushed /\ ~isempty(r[4])
                 THEN Append(pulses, r[4]) ELSE pulses
    /\ sweep_inds' = IF isempty(cur) THEN sweep_inds
                     ELSE Append(sweep_inds, Len(D) + 1)
    /\ UNCHANGED <<sweeps, pc>>

SweepSample(sample) ==
    /\ pc = "loop"
    /\ IsSweepSample(sample)
    /\ IF pulse_inds # <<>>
       THEN SweepBranch(sample, TRUE, Flush(Append(D, sample)),
                        Flush(Append(D, sample))[2])
       ELSE SweepBranch(sample, FALSE, <<>>, current_sweep)

\* mutant: the sweep takes the seq member of current_sweep
StoredSweep_TakesGroupSeq(stream) ==
    Group(current_sweep.channel, current_sweep.sweep, current_sweep.epoch, 0,
          current_sweep.seq, subset(stream, sweep_inds))

\* the sweep stored when a pulse sample arrives
StoredSweep(stream) ==
    Group(current_sweep.channel, current_sweep.sweep, current_sweep.epoch, 0,
          seq, subset(stream, sweep_inds))

\* the pulse sample starts a set or joins the set seen so far
JoinPulseSet(sample) ==
    /\ pulse_range' = <<WMin(pulse_range[1], sample.timestamp),
                        WMax(pulse_range[2], SampleEnd(sample))>>
    /\ pulse_inds' = Append(pulse_inds, Len(D) + 1)
    /\ UNCHANGED <<last_pulse_epoch, current_sweep, seq, pulses>>

\* the pulse sample does not overlap the set: the set is processed
FlushPulseSet(r) ==
    /\ last_pulse_epoch' = r[1]
    /\ current_sweep' = r[2]
    /\ seq' = r[3]
    /\ pulse_inds' = <<>>
    /\ pulse_range' = EmptyRange
    /\ pulses' = IF ~isempty(r[4]) THEN Append(pulses, r[4]) ELSE pulses

\* mutant: a stored sweep is put at the front of the list
PulseSample_StoresInFront(sample) ==
    /\ pc = "loop"
    /\ ~IsSweepSample(sample)
    /\ D' = Append(D, sample)
    /\ sweep_inds' = <<>>
    /\ sweeps' = IF sweep_inds # <<>> /\ ~isempty(current_sweep)
                 THEN <<StoredSweep(Append(D, sample))>> \o sweeps
                 ELSE sweeps
    /\ IF InPulseSet(sample)
       THEN JoinPulseSet(sample)
       ELSE FlushPulseSet(Flush(Append(D, sample)))
    /\ UNCHANGED pc

PulseSample(sample) ==
    /\ pc = "loop"
    /\ ~IsSweepSample(sample)
    /\ D' = Append(D, sample)
    /\ sweep_inds' = <<>>
    /\ sweeps' = IF sweep_inds # <<>> /\ ~isempty(current_sweep)
                 THEN Append(sweeps, StoredSweep(Append(D, sample)))
                 ELSE sweeps
    /\ IF InPulseSet(sample)
       THEN JoinPulseSet(sample)
       ELSE FlushPulseSet(Flush(Append(D, sample)))
    /\ UNCHANGED pc

\* the loop ends with the input; the outputs are returned as they are
Return ==
    /\ pc = "loop"
    /\ feed = <<>>
    /\ pc' = "done"
    /\ UNCHANGED <<D, pulse_inds, sweep_inds, last_pulse_epoch, seq,
                   current_sweep, pulse_range, pulses, sweeps, feed, gen>>

\* double last_pulse_epoch = -1e6, doubled
InitialPulseEpoch == WNeg(W(2000000))

DecoderInit ==
    /\ D = <<>>
    /\ pulse_inds = <<>>
    /\ sweep_inds = <<>>
    /\ last_pulse_epoch = InitialPulseEpoch
    /\ seq = 0
    /\ current_sweep = EmptyGroup
    /\ pulse_range = EmptyRange
    /\ pulses = <<>>
    /\ sweeps = <<>>
    /\ pc = "loop"

----------------------------------------------------------------------------
(* The input.  A stream is a sequence of bursts: a burst is a cluster of   *)
(* n samples lit together, the k-th of them by sensor k - 1 and 5 ticks    *)
(* after the one before; the second sample of a burst may have a length    *)
(* of its own (an outlier).  gen.t is the time of the last burst, gen.left *)
(* the number of bursts still allowed.                                     *)

MaxBursts == 5

Kind(len, odd, n, delta) == [len |-> len, odd |-> odd, n |-> n, delta |-> delta]

\* the bursts the input is made of: sweeps, H and V pulses at the gaps of
\* the channels, a skip pulse, a pulse in a sentinel row, a pulse in no row
BurstKinds ==
    { Kind(500, 500, 1, 200000),
      Kind(3000, 3000, 5, 200000),
      Kind(3500, 6900, 5, 180000),
      Kind(3000, 3000, 6, 20000),
      Kind(5000, 5000, 5, 200000),
      Kind(2700, 2700, 5, 200000),
      Kind(3250, 3250, 5, 200000) }

\* the time before the first burst: far from the end of the uint32_t range,
\* or 800000 ticks before it
StartTimes == {WZero, ToU32(WNeg(W(800000)))}

Burst(t, kind) ==
    [k \in 1..kind.n |->
        Sample(ToU32(WAdd(t, W(5 * (k - 1)))), k - 1,
               IF k = 2 THEN kind.odd ELSE kind.len)]

BurstTime(kind) == ToU32(WAdd(gen.t, W(kind.delta)))

\* what the input can offer next: <<sample, rest of its burst, generator>>
Offers ==
    IF feed # <<>>
    THEN {<<Head(feed), Tail(feed), gen>>}
    ELSE IF gen.left = 0 THEN {}
    ELSE {<<Head(Burst(BurstTime(kind), kind)),
            Tail(Burst(BurstTime(kind), kind)),
            [t |-> BurstTime(kind), left |-> gen.left - 1]>> : kind \in BurstKinds}

Step ==
    \E o \in Offers :
        /\ feed' = o[2]
        /\ gen' = o[3]
        /\ \/ SweepSample(o[1])
           \/ PulseSample(o[1])

NoCall == [fn |-> "none"]

Init ==
    /\ DecoderInit
    /\ feed = <<>>
    /\ \E t \in StartTimes : gen = [t |-> t, left |-> MaxBursts]
    /\ call = NoCall
    /\ ret = NoCall

Next ==
    \/ Step /\ UNCHANGED <<call, ret>>
    \/ Return /\ UNCHANGED <<call, ret>>

Spec == Init /\ [][Next]_vars

----------------------------------------------------------------------------
(* Scenario S1: 8 pulse samples of length about 3000 at t = 0, sweep       *)
(* samples of length 500 of sensors 0..7 at about t = 200000, 8 pulse      *)
(* samples of length about 3500 at t = 380000, sweep samples of sensors    *)
(* 0..7 at about t = 580000.  "About" is a deviation drawn from S1Jitter.  *)

S1Jitter == {-100, 0, 100}

S1Cluster(t, len, step) ==
    [k \in 1..8 |-> Sample(W(t + step * (k - 1)), k - 1, len)]

S1Stream(j1, j2, j3) ==
    S1Cluster(0, 3000 + j1, 1) \o S1Cluster(200000 + j3, 500, 50)
        \o S1Cluster(380000, 3500 + j2, 1) \o S1Cluster(580000 + j3, 500, 50)

S1Streams == {S1Stream(j1, j2, j3) : j1 \in S1Jitter, j2 \in S1Jitter, j3 \in S1Jitter}

InitS1 ==
    /\ DecoderInit
    /\ feed \in S1Streams
    /\ gen = [t |-> WZero, left |-> 0]
    /\ call = NoCall
    /\ ret = NoCall

SpecS1 == InitS1 /\ [][Next]_vars

----------------------------------------------------------------------------
(* Pulse sets whose samples overlap in part.  A lone pulse sample at the   *)
(* base time and a sweep sample set last_pulse_epoch; 400000 ticks after   *)
(* the base come PulseSetSize pulse samples of length 3000, each at an     *)
(* offset of its own, in any order; a sweep sample ends the set.  The base *)
(* is 0, or such that the set lies across the end of the uint32_t range.   *)

PulseSetSize == 6

OverlapOffsets == {0, 2900, 5800, 9000}

OverlapBases == {WZero, ToU32(WNeg(W(402000)))}

OverlapStream(base, offsets) ==
    <<Sample(base, 0, 3000), Sample(ToU32(WAdd(base, W(200000))), 0, 500)>>
        \o [k \in 1..PulseSetSize |->
               Sample(ToU32(WAdd(base, W(400000 + offsets[k]))), k - 1, 3000)]
        \o <<Sample(ToU32(WAdd(base, W(600000))), 0, 500)>>

OverlapStreams ==
    {OverlapStream(base, offsets) :
        base \in OverlapBases, offsets \in [1..PulseSetSize -> OverlapOffsets]}

InitOverlap ==
    /\ DecoderInit
    /\ feed \in OverlapStreams
    /\ gen = [t |-> WZero, left |-> 0]
    /\ call = NoCall
    /\ ret = NoCall

SpecOverlap == InitOverlap /\ [][Next]_vars

----------------------------------------------------------------------------
(* Single calls of lookup_pulse_class and of channel_detect.  The          *)
(* arguments of channel_detect are built from last_pulse_time and gap2,    *)
(* twice the difference new_pulse_time - last_pulse_time, which call keeps *)
(* as a plain integer; new_pulse_time is a median of timestamps, a         *)
(* multiple of 1/2 in the uint32_t range.                                  *)

\* the largest uint16_t
UINT16_MAX == 65535

LookupCalls ==
    {[fn |-> "lookup_pulse_class", pulselen |-> len] : len \in 0..UINT16_MAX}

\* gaps are sampled every 1000 ticks up to GridSteps thousand, and half
\* tick by half tick up to EdgeMargin half ticks around each window end
GridSteps == 410

EdgeMargin == 4

WindowEnds == {16000, 24000, 376000, 384000, 396000, 404000}

Gap2Samples ==
    {2000 * k : k \in (0 - GridSteps)..GridSteps}
        \cup {2 * e + m : e \in WindowEnds, m \in (0 - EdgeMargin)..EdgeMargin}

LastTimes == {WZero, W(300000), ToU32(WNeg(W(500000)))}

ChannelCall(last, gap2) ==
    [fn |-> "channel_detect", last_pulse_time |-> last,
     new_pulse_time |-> WAdd(WDouble(last), W(gap2)), gap2 |-> gap2]

ChannelCalls ==
    {c \in {ChannelCall(last, gap2) : last \in LastTimes, gap2 \in Gap2Samples} :
        /\ WLe(WZero, c.new_pulse_time)
        /\ WLt(c.new_pulse_time, WDouble(WAdd(UINT32_MAX, W(1))))}

CallLookup ==
    /\ pc = "call"
    /\ call.fn = "lookup_pulse_class"
    /\ ret = NoCall
    /\ ret' = [fn |-> call.fn, value |-> lookup_pulse_class(call.pulselen)]
    /\ UNCHANGED <<decoder_vars, call>>

CallChannel ==
    /\ pc = "call"
    /\ call.fn = "channel_detect"
    /\ ret = NoCall
    /\ ret' = [fn |-> call.fn,
               value |-> channel_detect(call.last_pulse_time, call.new_pulse_time)]
    /\ UNCHANGED <<decoder_vars, call>>

InitPure ==
    /\ D = <<>>
    /\ pulse_inds = <<>>
    /\ sweep_inds = <<>>
    /\ last_pulse_epoch = InitialPulseEpoch
    /\ seq = 0
    /\ current_sweep = EmptyGroup
    /\ pulse_range = EmptyRange
    /\ pulses = <<>>
    /\ sweeps = <<>>
    /\ pc = "call"
    /\ feed = <<>>
    /\ gen = [t |-> WZero, left |-> 0]
    /\ call \in LookupCalls \cup ChannelCalls
    /\ ret = NoCall

NextPure == CallLookup \/ CallChannel

SpecPure == InitPure /\ [][NextPure]_vars

----------------------------------------------------------------------------
(* The collator, collect_readings.  The map R is kept as the sequence of   *)
(* its push_back calls, in the order they are made: a reading is           *)
(* [sensor |-> s, x |-> x_ang, y |-> y_ang, t |-> twice the epoch pushed   *)
(* to R[s].t, seq |-> the loop variable i at the time of the call].        *)

Max(a, b) == IF a < b THEN b ELSE a

RECURSIVE MaxSeqFrom(_, _)
MaxSeqFrom(sw, k) ==
    IF k = Len(sw) THEN sw[k].seq ELSE Max(sw[k].seq, MaxSeqFrom(sw, k + 1))

find_max_seq(sw) == IF sw = <<>> THEN 0 ELSE MaxSeqFrom(sw, 1)

filter_sweeps(sw, ch, sq, rotor) ==
    SelectSeq(sw, LAMBDA g : g.channel = ch /\ g.seq = sq /\ g.sweep = rotor)

filter_samples_by_sensor_id(samples, id) ==
    SelectSeq(samples, LAMBDA smp : smp.sensor_id = id)

\* the conversion of an epoch (a double, given doubled) to uint32_t
EpochTicks(epoch) == ToU32(WHalfTrunc(epoch))

\* mutant: the operands of the subtraction are exchanged
ticks_sample_to_angle_Reversed(sample, epoch) ==
    ToU32(WSub(epoch, WAdd(sample.timestamp, W(sample.length \div 2))))

\* uint32_t ticks_sample_to_angle(sample, uint32_t epoch)
ticks_sample_to_angle(sample, epoch) ==
    ToU32(WSub(WAdd(sample.timestamp, W(sample.length \div 2)), epoch))

NumSensors == 32

SensedByBoth(x_sweep, y_sweep, s) ==
    /\ filter_samples_by_sensor_id(x_sweep.samples, s) # <<>>
    /\ filter_samples_by_sensor_id(y_sweep.samples, s) # <<>>

Reading(x_sweep, y_sweep, s, i) ==
    [sensor |-> s,
     x |-> ticks_sample_to_angle(filter_samples_by_sensor_id(x_sweep.samples, s)[1],
                                 EpochTicks(x_sweep.epoch)),
     y |-> ticks_sample_to_angle(filter_samples_by_sensor_id(y_sweep.samples, s)[1],
                                 EpochTicks(y_sweep.epoch)),
     t |-> x_sweep.epoch,
     seq |-> i]

ReadingsOf(ids, x_sweep, y_sweep, i) ==
    [k \in 1..Len(ids) |-> Reading(x_sweep, y_sweep, ids[k], i)]

\* the loop over the sensor ids for one x sweep and one y sweep
PairReadings(x_sweep, y_sweep, i) ==
    ReadingsOf(SelectSeq([k \in 1..NumSensors |-> k - 1],
                         LAMBDA s : SensedByBoth(x_sweep, y_sweep, s)),
               x_sweep, y_sweep, i)

\* the loop over sweep_i (1-based); an index past the end of y_sweeps
\* throws and is skipped
RECURSIVE SweepReadings(_, _, _, _)
SweepReadings(x_sweeps, y_sweeps, sweep_i, i) ==
    IF sweep_i > Len(x_sweeps)
    THEN <<>>
    ELSE IF sweep_i > Len(y_sweeps)
    THEN SweepReadings(x_sweeps, y_sweeps, sweep_i + 1, i)
    ELSE PairReadings(x_sweeps[sweep_i], y_sweeps[sweep_i], i)
             \o SweepReadings(x_sweeps, y_sweeps, sweep_i + 1, i)

\* the loop over the sequence numbers, from i on
RECURSIVE SeqReadings(_, _, _, _)
SeqReadings(station, sw, i, maxseq) ==
    IF i >= maxseq
    THEN <<>>
    ELSE IF filter_sweeps(sw, station, i, "H") = <<>>
              \/ filter_sweeps(sw, station, i, "V") = <<>>
    THEN <<>>
    ELSE SweepReadings(filter_sweeps(sw, station, i, "H"),
                       filter_sweeps(sw, station, i, "V"), 1, i)
             \o SeqReadings(station, sw, i + 1, maxseq)

\* mutant: the loop starts at sequence number 0
collect_readings_FromZero(station, sw) ==
    SeqReadings(station, sw, 0, find_max_seq(sw))

collect_readings(station, sw) == SeqReadings(station, sw, 1, find_max_seq(sw))

\* The sweeps given to the collator: up to MaxSweeps different groups in the
\* order of their seq.  A group of seq q and rotor H has its epoch at 800000 q, one
\* of rotor V 400000.5 ticks later; its first variant holds samples of
\* sensors 0 and 1, its second, taken under the same pulse after a skip
\* pulse, samples of sensors 0, 2 and 0 again.
MaxSweeps == 5

SweepTime(sq, rotor) == 800000 * sq + (IF rotor = "V" THEN 400000 ELSE 0)

SweepEpoch(sq, rotor) ==
    WAdd(WDouble(W(SweepTime(sq, rotor))), W(IF rotor = "V" THEN 1 ELSE 0))

SweepSamples(t, variant) ==
    IF variant = 1
    THEN <<Sample(W(t + 100000), 0, 500), Sample(W(t + 150000), 1, 400)>>
    ELSE <<Sample(W(t + 500000), 0, 500), Sample(W(t + 520000), 2, 400),
           Sample(W(t + 540000), 0, 300)>>

SweepGroup(ch, rotor, sq, variant) ==
    Group(ch, rotor, SweepEpoch(sq, rotor), 0, sq,
          SweepSamples(SweepTime(sq, rotor), variant))

SweepGroups ==
    {SweepGroup("B", rotor, 1, variant) : rotor \in {"H", "V"}, variant \in {1, 2}}
        \cup {SweepGroup("B", rotor, 2, 1) : rotor \in {"H", "V"}}
        \cup {SweepGroup("B", "H", 3, 1), SweepGroup("C", "H", 1, 1)}
        \cup {SweepGroup("B", rotor, 0, 1) : rotor \in {"H", "V"}}

SweepLists ==
    {sw \in UNION {[1..n -> SweepGroups] : n \in 0..MaxSweeps} :
        /\ \A k \in 1..(Len(sw) - 1) : sw[k].seq <= sw[k + 1].seq
        /\ \A k, m \in 1..Len(sw) : sw[k] = sw[m] => k = m}

Stations == {"B", "C"}

CollectCalls ==
    {[fn |-> "collect_readings", station |-> st, sweeps |-> sw] :
        st \in Stations, sw \in SweepLists}

CallCollect ==
    /\ pc = "call"
    /\ call.fn = "collect_readings"
    /\ ret = NoCall
    /\ ret' = [fn |-> call.fn, value |-> collect_readings(call.station, call.sweeps)]
    /\ UNCHANGED <<decoder_vars, call>>

InitCollect ==
    /\ D = <<>>
    /\ pulse_inds = <<>>
    /\ sweep_inds = <<>>
    /\ last_pulse_epoch = InitialPulseEpoch
    /\ seq = 0
    /\ current_sweep = EmptyGroup
    /\ pulse_range = EmptyRange
    /\ pulses = <<>>
    /\ sweeps = <<>>
    /\ pc = "call"
    /\ feed = <<>>
    /\ gen = [t |-> WZero, left |-> 0]
    /\ call \in CollectCalls
    /\ ret = NoCall

NextCollect == CallCollect

SpecCollect == InitCollect /\ [][NextCollect]_vars

----------------------------------------------------------------------------
(* The sanitizer and the start of vl_light_classify_samples: the raw       *)
(* samples are filtered with is_sample_valid and the result is handed to   *)
(* process_lighthouse_samples.                                             *)

\* the entry { 0xffffffff, 0xff, 0xffff }
Sentinel == Sample(UINT32_MAX, 255, 65535)

\* mutant: one field of the sentinel is enough to drop a sample
is_sample_valid_AnyField(smp) ==
    ~(\/ smp.timestamp = UINT32_MAX
      \/ smp.sensor_id = 255
      \/ smp.length = 65535)

is_sample_valid(smp) ==
    ~(/\ smp.timestamp = UINT32_MAX
      /\ smp.sensor_id = 255
      /\ smp.length = 65535)

\* filter_reports(reports, filter_fun) with filter_fun = &is_sample_valid,
\* as at each of its calls
filter_reports(reports) == SelectSeq(reports, is_sample_valid)

\* A stream without sentinels: a lone pulse sample and a sweep sample, an H
\* pulse set 400000 ticks later, a sweep sample, a sweep sample and a pulse
\* sample that each have two of the three fields of the sentinel, the rest
\* of a V pulse set, a sweep sample.
CleanStream ==
    <<Sample(WZero, 0, 3000), Sample(W(200000), 0, 500)>>
        \o [k \in 1..5 |-> Sample(W(400000 + 5 * (k - 1)), k - 1, 3000)]
        \o <<Sample(W(600000), 0, 500),
             Sample(UINT32_MAX, 255, 500),
             Sample(W(800000), 255, 65535)>>
        \o [k \in 1..4 |-> Sample(W(800000 + 5 * k), k, 3500)]
        \o <<Sample(W(1000000), 0, 500)>>

\* the raw streams: CleanStream with up to MaxSentinels sentinels put in,
\* positions[j] = p putting one after the p-th sample (p = 0: in front)
MaxSentinels == 2

SentinelsAt(positions, p) ==
    [j \in 1..Cardinality({i \in DOMAIN positions : positions[i] = p}) |-> Sentinel]

RECURSIVE RawFrom(_, _, _)
RawFrom(clean, positions, p) ==
    IF p > Len(clean)
    THEN <<>>
    ELSE (IF p = 0 THEN <<>> ELSE <<clean[p]>>)
             \o SentinelsAt(positions, p)
             \o RawFrom(clean, positions, p + 1)

SentinelPositions ==
    {ps \in UNION {[1..n -> 0..Len(CleanStream)] : n \in 0..MaxSentinels} :
        \A j \in 1..(Len(ps) - 1) : ps[j] <= ps[j + 1]}

RawStreams == {RawFrom(CleanStream, ps, 0) : ps \in SentinelPositions}

Sanitize ==
    /\ pc = "sanitize"
    /\ pc' = "loop"
    /\ feed' = filter_reports(call.raw_light_samples)
    /\ ret' = [fn |-> "filter_reports",
               value |-> filter_reports(call.raw_light_samples)]
    /\ UNCHANGED <<D, pulse_inds, sweep_inds, last_pulse_epoch, seq,
                   current_sweep, pulse_range, pulses, sweeps, gen, call>>

InitClassify ==
    /\ D = <<>>
    /\ pulse_inds = <<>>
    /\ sweep_inds = <<>>
    /\ last_pulse_epoch = InitialPulseEpoch
    /\ seq = 0
    /\ current_sweep = EmptyGroup
    /\ pulse_range = EmptyRange
    /\ pulses = <<>>
    /\ sweeps = <<>>
    /\ pc = "sanitize"
    /\ feed = <<>>
    /\ gen = [t |-> WZero, left |-> 0]
    /\ \E raw \in RawStreams :
           call = [fn |-> "vl_light_classify_samples", raw_light_samples |-> raw]
    /\ ret = NoCall

NextClassify ==
    \/ Sanitize
    \/ Step /\ UNCHANGED <<call, ret>>
    \/ Return /\ UNCHANGED <<call, ret>>

SpecClassify == InitClassify /\ [][NextClassify]_vars

----------------------------------------------------------------------------
(* Properties of the decoder                                               *)

SameSweep(p, s) ==
    /\ p.channel = s.channel
    /\ p.sweep = s.sweep
    /\ p.epoch = s.epoch
    /\ p.seq = s.seq

\* C1: sweep inheritance: every sweep-group in the sweeps output has a
\* pulse-group in the pulses output, appended before it, with the same
\* channel, rotor, epoch and seq.
C1_SweepInheritance ==
    \A j \in 1..Len(sweeps) : \E k \in 1..Len(pulses) : SameSweep(pulses[k], sweeps[j])

\* a sweep-group was emitted after the sequence counter had moved
C1_Witness ==
    \E j \in 1..Len(sweeps) : sweeps[j].seq >= 1 /\ Len(sweeps[j].samples) >= 1

\* C2: length partition: every sample of every emitted pulse-group has
\* length >= 2000 and every sample of every emitted sweep-group has
\* length < 2000.
C2_LengthPartition ==
    /\ \A k \in 1..Len(pulses) : \A n \in 1..Len(pulses[k].samples) :
           pulses[k].samples[n].length >= 2000
    /\ \A j \in 1..Len(sweeps) : \A n \in 1..Len(sweeps[j].samples) :
           sweeps[j].samples[n].length < 2000

\* both kinds of group were emitted, a pulse-group holding an outlier length
C2_Witness ==
    /\ sweeps # <<>>
    /\ \E k \in 1..Len(pulses) : \E n, m \in 1..Len(pulses[k].samples) :
           pulses[k].samples[n].length # pulses[k].samples[m].length

\* the groups appended to a list by the step
Added(old, new) == {new[j] : j \in (Len(old) + 1)..Len(new)}

Emitted(ps, ss) == {ps[k] : k \in 1..Len(ps)} \cup {ss[j] : j \in 1..Len(ss)}

\* C3: sequence monotonicity: a group appended to either output has a seq
\* that is at least the seq of every group emitted before it (within one
\* iteration the sweep is stored before the pulse).
C3_SeqMonotone ==
    [][ /\ \A g \in Added(sweeps, sweeps') : \A h \in Emitted(pulses, sweeps) :
               h.seq <= g.seq
        /\ \A g \in Added(pulses, pulses') : \A h \in Emitted(pulses, sweeps') :
               h.seq <= g.seq ]_vars

\* groups were emitted under different sequence numbers
C3_Witness ==
    /\ sweeps # <<>>
    /\ \E k \in 1..Len(pulses) : pulses[k].seq > sweeps[1].seq

\* C4 as stated: no group of either output has channel err or fewer than
\* five samples.
C4_Original ==
    \A g \in Emitted(pulses, sweeps) :
        g.channel # "e" /\ Len(g.samples) >= 5

\* C4, amended: no pulse-group has channel err or fewer than five samples;
\* no sweep-group has channel err or no sample (it may have fewer than five).
C4_NoInvalidGroup ==
    /\ \A k \in 1..Len(pulses) :
           pulses[k].channel \in {"A", "B", "C"} /\ Len(pulses[k].samples) >= 5
    /\ \A j \in 1..Len(sweeps) :
           sweeps[j].channel \in {"A", "B", "C"} /\ Len(sweeps[j].samples) >= 1

Members(q) == {q[k] : k \in 1..Len(q)}

\* a sweep-group of fewer than five samples was emitted, and a pulse sample
\* of a valid class was consumed whose pulse set was not emitted
C4_Witness ==
    /\ \E j \in 1..Len(sweeps) : Len(sweeps[j].samples) < 5
    /\ pulses # <<>>
    /\ \E n \in 1..Len(D) :
           /\ D[n].length = 3000
           /\ n \notin Members(pulse_inds)
           /\ \A k \in 1..Len(pulses) : D[n] \notin Members(pulses[k].samples)

ValidDurations == {3000 + 500 * n : n \in 0..7}

Within(len, d) == len - d < 250 /\ d - len < 250

\* C5: pulse-class window: the median length of every emitted pulse-group
\* lies strictly within 250 ticks of exactly one of the durations 3000,
\* 3500, ..., 6500.
C5_PulseClassWindow ==
    \A k \in 1..Len(pulses) :
        Cardinality({d \in ValidDurations :
                        Within(median_length(pulses[k].samples), d)}) = 1

\* a pulse set in a sentinel row and one in no row were consumed, and a
\* pulse-group was emitted whose median is not the length of all its samples
C5_Witness ==
    /\ \E n \in 1..Len(D) : D[n].length = 2700
    /\ \E n \in 1..Len(D) : D[n].length = 3250
    /\ \E k \in 1..Len(pulses) : \E n \in 1..Len(pulses[k].samples) :
           pulses[k].samples[n].length # median_length(pulses[k].samples)

\* the step flushes the pulse set through the state machine
Flushing == pulse_inds # <<>> /\ pulse_inds' = <<>>

FlushedSet == subset(D, pulse_inds)

\* the class of the median length of a pulse set
ClassOf(set) == lookup_pulse_class(median_length(set) % 65536)

\* the channel the flushed pulse set is given
FlushedChannel ==
    channel_detect(ToU32(WHalfTrunc(last_pulse_epoch)), median_timestamp(FlushedSet))

\* the sample consumed by the step is a sweep sample, and is dropped
SweepDropped == IsSweepSample(D'[Len(D')]) => sweep_inds' = <<>>

\* C6 as stated: when the flushed pulse set has a median length in a
\* sentinel row or in no row, no pulse-group is emitted, current_sweep is
\* cleared and the sweep sample that follows is dropped, whatever the
\* timing and size of the pulse set.
C6_UnclassifiedResets ==
    [][ Flushing /\ ClassOf(FlushedSet).skip = -1
            => /\ pulses' = pulses
               /\ isempty(current_sweep')
               /\ SweepDropped ]_vars

\* C7 as stated: when a pulse set with skip = 1 is flushed, current_sweep
\* is empty after the flush and the sweep sample that follows is dropped
\* (so no sweep-group holds it), whatever current_sweep held before.
C7_Original ==
    [][ Flushing /\ ClassOf(FlushedSet).skip = 1
            => /\ pulses' = pulses
               /\ isempty(current_sweep')
               /\ SweepDropped ]_vars

\* C7, amended: when a pulse set with skip = 1 is flushed, no pulse-group
\* is emitted and seq is unchanged; current_sweep is cleared if the set has
\* channel err or fewer than five samples and is left as it was otherwise;
\* the sweep sample that follows is dropped exactly if current_sweep is
\* then empty, and is collected under the earlier pulse if not.
C7_SkipKeepsSweep ==
    [][ Flushing /\ ClassOf(FlushedSet).skip = 1
            => /\ pulses' = pulses
               /\ seq' = seq
               /\ current_sweep' =
                      IF FlushedChannel = "e" \/ Len(FlushedSet) < 5
                      THEN EmptyGroup ELSE current_sweep
               /\ IsSweepSample(D'[Len(D')])
                      => sweep_inds' = IF isempty(current_sweep') THEN <<>>
                                       ELSE <<Len(D')>> ]_vars

\* a sweep sample was collected right after a flushed skip pulse set
C7_Witness ==
    /\ Len(D) > 5
    /\ IsSweepSample(D[Len(D)])
    /\ \A n \in (Len(D) - 5)..(Len(D) - 1) : D[n].length = 5000
    /\ sweep_inds = <<Len(D)>>
    /\ ~isempty(current_sweep)

AllChannel(ch) == \A g \in Emitted(pulses, sweeps) : g.channel = ch

\* C8 as stated: for the S1 stream the decoder returns exactly 2
\* pulse-groups and 2 sweep-groups, all of channel B, and seq goes from 0 to
\* 1 on the first (H) pulse.
C8_Original ==
    pc = "done" =>
        /\ Len(pulses) = 2
        /\ Len(sweeps) = 2
        /\ AllChannel("B")
        /\ pulses[1].seq = 1

\* C8, amended: for the S1 stream the decoder returns exactly 1 pulse-group
\* and no sweep-group: the pulse set at t = 0 gets channel err and is not
\* emitted, the sweep samples after it are dropped, the pulse set at
\* t = 380000 is emitted with channel B, rotor V and seq 0, the last 8
\* sweep samples are still buffered when the input ends, and seq stays 0.
C8_S1Decoded ==
    pc = "done" =>
        /\ Len(pulses) = 1
        /\ sweeps = <<>>
        /\ AllChannel("B")
        /\ pulses[1].sweep = "V"
        /\ pulses[1].seq = 0
        /\ Len(pulses[1].samples) = 8
        /\ seq = 0
        /\ sweep_inds = <<25, 26, 27, 28, 29, 30, 31, 32>>
        /\ current_sweep.channel = "B"

\* the whole S1 stream was decoded and the outputs returned
C8_Witness == pc = "done" /\ Len(D) = 32 /\ D \in S1Streams

\* the row of the spec's table for a length, found by arithmetic: row n has
\* duration 2500 + 500 n, rows 0 and 9 are the sentinels, a length at
\* exactly 250 ticks from two rows is in none
SpecRow(len) ==
    IF len <= 2250 \/ len >= 7250 \/ (len - 2250) % 500 = 0
    THEN -1
    ELSE (len - 2250) \div 500

SpecClass(n) ==
    IF n < 1 \/ n > 8
    THEN <<-1, -1, -1>>
    ELSE <<(n - 1) \div 4, (n - 1) % 2, ((n - 1) \div 2) % 2>>

\* C9: pulse classifier: for every uint16_t length, lookup_pulse_class
\* returns the one row whose duration is strictly within 250 ticks of it,
\* with (skip, rotor, databit) as in the spec's table ((-1,-1,-1) for rows
\* 2500 and 7000), and (-1,-1,-1) when no row matches.
C9_PulseClassifier ==
    ret # NoCall /\ ret.fn = "lookup_pulse_class" =>
        /\ ClassTuple(ret.value) = SpecClass(SpecRow(call.pulselen))
        /\ SpecRow(call.pulselen) >= 0
               => ret.value.duration = 2500 + 500 * SpecRow(call.pulselen)

\* the classifier has answered for a length in no row
C9_Witness ==
    /\ ret # NoCall
    /\ ret.fn = "lookup_pulse_class"
    /\ call.pulselen = 3250
    /\ ClassTuple(ret.value) = <<-1, -1, -1>>

Abs(x) == IF x < 0 THEN 0 - x ELSE x

\* the channel windows, on a doubled gap
InWindow2(gap2, centre) == Abs(gap2 - 2 * centre) < 2 * 4000

WindowChannel(gap2) ==
    IF InWindow2(gap2, 400000) THEN "A"
    ELSE IF InWindow2(gap2, 400000 - 20000) THEN "B"
    ELSE IF InWindow2(gap2, 20000) THEN "C"
    ELSE "e"

WindowsHit(gap2) == {c \in {400000, 400000 - 20000, 20000} : InWindow2(gap2, c)}

\* twice the gap after its conversion to an integer, toward zero
Truncated2(gap2) == IF gap2 >= 0 THEN 2 * (gap2 \div 2) ELSE 0 - 2 * ((0 - gap2) \div 2)

\* C10 as stated: with dt = new_pulse_time - last_pulse_time, channel_detect
\* returns A if |dt - 400000| < 4000, else B if |dt - 380000| < 4000, else C
\* if |dt - 20000| < 4000, else err.
C10_Original ==
    ret # NoCall /\ ret.fn = "channel_detect" =>
        ret.value = WindowChannel(call.gap2)

\* C10, amended: the same with dt = new_pulse_time - last_pulse_time
\* converted to an integer (rounded toward zero); the three windows are
\* pairwise disjoint, so at most one of them matches.
C10_ChannelDetector ==
    ret # NoCall /\ ret.fn = "channel_detect" =>
        /\ ret.value = WindowChannel(Truncated2(call.gap2))
        /\ Cardinality(WindowsHit(Truncated2(call.gap2))) <= 1
        /\ Cardinality(WindowsHit(call.gap2)) <= 1

\* channel_detect has answered for a gap of 396000.5 ticks
C10_Witness ==
    /\ ret # NoCall
    /\ ret.fn = "channel_detect"
    /\ call.gap2 = 2 * 396000 + 1
    /\ ret.value = "e"

\* the end of the interval of a sample, as a number (not reduced)
IntervalEnd(s) == WAdd(s.timestamp, W(s.length))

NoWrapAround(samples) ==
    \A n \in 1..Len(samples) : WLe(IntervalEnd(samples[n]), UINT32_MAX)

Overlap(a, b) ==
    WLe(a.timestamp, IntervalEnd(b)) /\ WLe(b.timestamp, IntervalEnd(a))

\* the union of the intervals has no gap: every start but the earliest lies
\* in an interval that starts before it
Connected(samples) ==
    \A n \in 1..Len(samples) :
        \/ \A m \in 1..Len(samples) : WLe(samples[n].timestamp, samples[m].timestamp)
        \/ \E m \in 1..Len(samples) :
               /\ WLt(samples[m].timestamp, samples[n].timestamp)
               /\ WLe(samples[n].timestamp, IntervalEnd(samples[m]))

\* C11: pulse-set cohesion: in every emitted pulse-group with more than one
\* sample, none of them reaching over the end of the uint32_t range, the
\* union of the intervals [timestamp, timestamp + length] is one connected
\* interval.
C11_PulseSetCohesion ==
    \A k \in 1..Len(pulses) :
        Len(pulses[k].samples) > 1 /\ NoWrapAround(pulses[k].samples)
            => Connected(pulses[k].samples)

\* a pulse-group was emitted whose samples lie at three different times
C11_Witness ==
    \E k \in 1..Len(pulses) :
        /\ NoWrapAround(pulses[k].samples)
        /\ Cardinality({pulses[k].samples[n].timestamp :
                           n \in 1..Len(pulses[k].samples)}) >= 3

\* C12 as stated: in every emitted pulse-group the interval of each sample
\* overlaps the interval of every other sample of the group.
C12_PairwiseOverlap ==
    \A k \in 1..Len(pulses) : \A n, m \in 1..Len(pulses[k].samples) :
        NoWrapAround(pulses[k].samples)
            => Overlap(pulses[k].samples[n], pulses[k].samples[m])

\* the readings of a sensor under a sequence number
ReadingsAt(readings, s, i) ==
    {k \in 1..Len(readings) : readings[k].sensor = s /\ readings[k].seq = i}

\* C13 as stated: in the readings returned by collect_readings for a
\* station, each sensor has at most one reading per sequence number, and a
\* reading is taken from entry 0 of the list of H sweeps of that station and
\* sequence number, however many entries the lists have.
C13_CollatorUniqueness ==
    ret # NoCall /\ ret.fn = "collect_readings" =>
        /\ \A s \in 0..(NumSensors - 1) : \A i \in 1..3 :
               Cardinality(ReadingsAt(ret.value, s, i)) <= 1
        /\ \A k \in 1..Len(ret.value) :
               ret.value[k].t =
                   filter_sweeps(call.sweeps, call.station, ret.value[k].seq, "H")[1].epoch

\* the timestamps do not decrease along the stream
TimeOrdered(stream) ==
    \A n \in 1..(Len(stream) - 1) : WLe(stream[n].timestamp, stream[n + 1].timestamp)

\* the middle of the lit period of a sample, as a number (not reduced)
MidTime(sample) == WAdd(sample.timestamp, W(sample.length \div 2))

AngleIsTrueDifference(sample, epoch) ==
    /\ WLe(epoch, WDouble(MidTime(sample)))
    /\ ticks_sample_to_angle(sample, EpochTicks(epoch))
           = WSub(MidTime(sample), WHalfTrunc(epoch))

\* C14: angle sign: when the timestamps of the stream consumed so far do
\* not decrease, every sample of every emitted sweep-group has
\* timestamp + length / 2 >= the epoch of its group, and the value that
\* ticks_sample_to_angle computes for it in uint32_t arithmetic is the true,
\* non-negative difference.
C14_AngleSign ==
    TimeOrdered(D) =>
        \A j \in 1..Len(sweeps) : \A n \in 1..Len(sweeps[j].samples) :
            AngleIsTrueDifference(sweeps[j].samples[n], sweeps[j].epoch)

\* the same without the condition on the stream
C14_AnyStream ==
    \A j \in 1..Len(sweeps) : \A n \in 1..Len(sweeps[j].samples) :
        AngleIsTrueDifference(sweeps[j].samples[n], sweeps[j].epoch)

\* a sweep-group was emitted from a stream whose timestamps do not
\* decrease, its first sample lit more than 100000 ticks after the epoch
C14_Witness ==
    /\ TimeOrdered(D)
    /\ \E j \in 1..Len(sweeps) :
           /\ sweeps[j].samples # <<>>
           /\ WLt(W(100000),
                  ticks_sample_to_angle(sweeps[j].samples[1], EpochTicks(sweeps[j].epoch)))

\* the positions of the stream at which a sample stands
Positions(sample) == {n \in 1..Len(D) : D[n] = sample}

\* every sample of group g stands before every sample of group h
Precedes(g, h) ==
    \A a \in Members(g.samples) : \A b \in Members(h.samples) :
        \A n \in Positions(a) : \A m \in Positions(b) : n < m

InStreamOrder(list) ==
    \A k, m \in 1..Len(list) : k < m => Precedes(list[k], list[m])

\* the samples of a group are different samples of the stream
NoRepeat(g) ==
    /\ \A n, m \in 1..Len(g.samples) : g.samples[n] = g.samples[m] => n = m
    /\ \A a \in Members(g.samples) : Cardinality(Positions(a)) = 1

\* C15: output ordering: in each output list every sample of an earlier
\* group stands at an earlier position of the input stream than every
\* sample of a later group, and no sample of the stream is in more than one
\* emitted group (nor twice in one).
C15_OutputOrdering ==
    /\ InStreamOrder(pulses)
    /\ InStreamOrder(sweeps)
    /\ \A g \in Emitted(pulses, sweeps) : NoRepeat(g)
    /\ \A k \in 1..Len(pulses) : \A j \in 1..Len(sweeps) :
           Members(pulses[k].samples) \cap Members(sweeps[j].samples) = {}

\* two pulse-groups and two sweep-groups were emitted
C15_Witness == Len(pulses) >= 2 /\ Len(sweeps) >= 2

\* a stream without its sentinels, sample by sample
RECURSIVE WithoutSentinels(_)
WithoutSentinels(stream) ==
    IF stream = <<>>
    THEN <<>>
    ELSE IF /\ Head(stream).timestamp = <<65535, 65535>>
            /\ Head(stream).sensor_id = 255
            /\ Head(stream).length = 65535
    THEN WithoutSentinels(Tail(stream))
    ELSE <<Head(stream)>> \o WithoutSentinels(Tail(stream))

\* C16: sanitizer: filter_reports with is_sample_valid returns the samples
\* of its input that are not the sentinel, in their order; filtering the
\* result again changes nothing; and for a stream with sentinels put in
\* anywhere the decoder is given, consumes and decodes the stream without
\* them: its output is the output for that stream (two pulse-groups, of
\* the samples at 400000 and at 800000, and one sweep-group).
C16_Sanitizer ==
    ret # NoCall =>
        /\ ret.value = WithoutSentinels(call.raw_light_samples)
        /\ filter_reports(ret.value) = ret.value
        /\ ret.value = CleanStream
        /\ D \o feed = CleanStream
        /\ pc = "done" =>
               /\ D = CleanStream
               /\ Len(pulses) = 2
               /\ pulses[1].samples = SubSeq(CleanStream, 3, 7)
               /\ pulses[2].samples = SubSeq(CleanStream, 10, 14)
               /\ Len(sweeps) = 1
               /\ sweeps[1].samples = SubSeq(CleanStream, 8, 9)

\* a raw stream with two sentinels, one of them in a pulse set, was
\* filtered and decoded
C16_Witness ==
    /\ pc = "done"
    /\ Len(call.raw_light_samples) = Len(CleanStream) + 2
    /\ call.raw_light_samples[5] = Sentinel
    /\ Len(D) = Len(CleanStream)

\* the step consumes a sample
Consuming == Len(D') = Len(D) + 1

Arriving == D'[Len(D')]

\* C17 as stated: when a pulse sample arrives that does not overlap the
\* pulse_range of a non-empty pulse set, the set is flushed and the
\* arriving sample becomes the first member of the new set: after the step
\* pulse_inds holds exactly this sample and pulse_range is its interval.
C17_BackToBack ==
    [][ Consuming /\ pulse_inds # <<>> /\ ~IsSweepSample(Arriving)
            /\ ~InPulseSet(Arriving)
            => /\ pulse_inds' = <<Len(D')>>
               /\ pulse_range' = <<Arriving.timestamp, SampleEnd(Arriving)>> ]_vars

\* C18 as stated: when the input ends with a non-empty pulse set, the set
\* is flushed through the state machine, and emitted as a pulse-group if it
\* is valid and not skipped, before the outputs are returned; a non-empty
\* sweep_inds is discarded without a sweep-group.
C18_EndOfStream ==
    [][ pc = "loop" /\ pc' = "done"
            => /\ sweeps' = sweeps
               /\ pulse_inds # <<>>
                      => /\ pulse_inds' = <<>>
                         /\ pulses' = IF isempty(Flush(D)[4]) THEN pulses
                                      ELSE Append(pulses, Flush(D)[4]) ]_vars

\* the flushed pulse set has channel err or fewer than five samples
FlushedInvalid == FlushedChannel = "e" \/ Len(FlushedSet) < 5

\* C19: invalid pulse resets: when a flushed pulse set has channel err or
\* fewer than five samples, no pulse-group is emitted, seq is unchanged and
\* current_sweep becomes empty; while current_sweep is empty no sweep sample
\* is collected and no sweep-group is stored; and current_sweep only leaves
\* the empty state at the flush of a pulse set with a valid channel, at
\* least five samples and skip = 0.
C19_InvalidPulseResets ==
    [][ /\ Flushing /\ FlushedInvalid
            => /\ pulses' = pulses
               /\ seq' = seq
               /\ isempty(current_sweep')
        /\ isempty(current_sweep') => sweep_inds' = <<>>
        /\ isempty(current_sweep) => sweeps' = sweeps
        /\ isempty(current_sweep) /\ ~isempty(current_sweep')
            => /\ Flushing
               /\ ~FlushedInvalid
               /\ ClassOf(FlushedSet).skip = 0 ]_vars

\* after a pulse-group was emitted, an invalid pulse set has emptied
\* current_sweep and the sweep sample just consumed was dropped
C19_Witness ==
    /\ pulses # <<>>
    /\ isempty(current_sweep)
    /\ pulse_inds = <<>>
    /\ D # <<>>
    /\ IsSweepSample(D[Len(D)])
    /\ sweep_inds = <<>>

\* C20: skip pulse keeps the sweep context: when a flushed pulse set has a
\* valid channel, at least five samples and skip = 1, no pulse-group is
\* emitted and current_sweep and seq are left exactly as they were; every
\* sweep-group stored carries the channel, rotor, epoch and seq of the last
\* pulse-group emitted, the non-skip pulse before it.
C20_SkipKeepsContext ==
    [][ /\ Flushing /\ ~FlushedInvalid /\ ClassOf(FlushedSet).skip = 1
            => /\ pulses' = pulses
               /\ current_sweep' = current_sweep
               /\ seq' = seq
        /\ \A g \in Added(sweeps, sweeps') :
               /\ pulses # <<>>
               /\ SameSweep(pulses[Len(pulses)], g) ]_vars

\* two sweep-groups were stored under one pulse, a skip pulse set between
\* them
C20_Witness ==
    /\ Len(sweeps) >= 2
    /\ SameSweep(sweeps[1], sweeps[2])
    /\ \E n \in 1..Len(D) : D[n].length = 5000
    /\ \A n \in 1..Len(D) : D[n].length # 2700

\* the flushed pulse set moves the sequence counter
FlushCounts ==
    /\ Flushing
    /\ ~FlushedInvalid
    /\ ClassOf(FlushedSet).skip = 0
    /\ FlushedChannel \in {"A", "B"}
    /\ SweepKey(ClassOf(FlushedSet).sweep) = "H"

\* C21: sequence counter step: a step increments seq by exactly 1 if it
\* flushes a pulse set with a valid channel, at least five samples,
\* skip = 0, channel A or B and rotor H, and leaves seq unchanged if it is
\* any other flush or no flush; a pulse-group emitted by the step carries
\* the seq after the increment.
C21_SeqStep ==
    [][ /\ seq' = IF FlushCounts THEN seq + 1 ELSE seq
        /\ \A g \in Added(pulses, pulses') : g.seq = seq' ]_vars

\* the counter has moved, and pulse-groups of rotor V and of channel C were
\* emitted, which do not move it
C21_Witness ==
    /\ seq >= 1
    /\ \E k \in 1..Len(pulses) : pulses[k].sweep = "V"
    /\ \E k \in 1..Len(pulses) : pulses[k].channel = "C"

\* C22: after every flush of a pulse set last_pulse_epoch is the median
\* timestamp of that set, emitted or not, and no other step changes it; the
\* channel of an emitted pulse-group is the one of the gap between its
\* epoch and the last_pulse_epoch left by the flush before it.
C22_LastPulseEpoch ==
    [][ /\ last_pulse_epoch' = IF Flushing THEN median_timestamp(FlushedSet)
                               ELSE last_pulse_epoch
        /\ \A g \in Added(pulses, pulses') :
               /\ g.epoch = last_pulse_epoch'
               /\ g.channel = ChannelOfGap(PulseGap(ToU32(WHalfTrunc(last_pulse_epoch)),
                                                    g.epoch)) ]_vars

\* the first pulse-group emitted does not hold the first pulse sample of
\* the stream: its channel came from the gap to a set that was not emitted
C22_Witness ==
    /\ pulses # <<>>
    /\ ~IsSweepSample(D[1])
    /\ D[1] \notin Members(pulses[1].samples)
    /\ WLt(D[1].timestamp, W(400000))

\* the largest seq of a list of sweeps, 0 for the empty list
LargestSeq(sw) ==
    IF sw = <<>> THEN 0
    ELSE CHOOSE m \in {sw[k].seq : k \in 1..Len(sw)} :
             \A k \in 1..Len(sw) : sw[k].seq <= m

HasSweep(sw, station, i, rotor) ==
    \E k \in 1..Len(sw) :
        sw[k].channel = station /\ sw[k].seq = i /\ sw[k].sweep = rotor

\* the station has an H sweep and a V sweep under every sequence number
\* from 1 to i
CompleteUpTo(sw, station, i) ==
    \A j \in 1..i : HasSweep(sw, station, j, "H") /\ HasSweep(sw, station, j, "V")

Visited(sw, station, i) ==
    1 <= i /\ i < LargestSeq(sw) /\ CompleteUpTo(sw, station, i)

\* C23: collator range: collect_readings visits the sequence numbers i with
\* 1 <= i < max_seq in increasing order and stops at the first one for
\* which the station has no H sweep or no V sweep: every reading is made
\* under such an i, from an H sweep of that seq, and the readings are in the
\* order of their seq; a sweep with seq 0, with seq = max_seq or with a seq
\* after the first incomplete one gives no reading.  (Every sweep given
\* here has a sample of sensor 0, so each i visited gives a reading.)
C23_CollatorRange ==
    ret # NoCall /\ ret.fn = "collect_readings" =>
        /\ \A k \in 1..Len(ret.value) :
               /\ Visited(call.sweeps, call.station, ret.value[k].seq)
               /\ \E n \in 1..Len(call.sweeps) :
                      /\ call.sweeps[n].channel = call.station
                      /\ call.sweeps[n].sweep = "H"
                      /\ call.sweeps[n].seq = ret.value[k].seq
                      /\ call.sweeps[n].epoch = ret.value[k].t
               /\ k > 1 => ret.value[k - 1].seq <= ret.value[k].seq
        /\ \A n \in 1..Len(call.sweeps) :
               ~Visited(call.sweeps, call.station, call.sweeps[n].seq)
                   => \A k \in 1..Len(ret.value) :
                          ret.value[k].t # call.sweeps[n].epoch
        /\ \A i \in 0..3 :
               Visited(call.sweeps, call.station, i)
                   => \E k \in 1..Len(ret.value) : ret.value[k].seq = i

\* readings were returned for a station that also has an H and a V sweep
\* of seq 0, and an H sweep of the largest seq
C23_Witness ==
    /\ ret # NoCall
    /\ ret.fn = "collect_readings"
    /\ ret.value # <<>>
    /\ HasSweep(call.sweeps, call.station, 0, "H")
    /\ HasSweep(call.sweeps, call.station, 0, "V")
    /\ HasSweep(call.sweeps, call.station, LargestSeq(call.sweeps), "H")

\* sweep samples are only buffered under a pulse, and not while a pulse set
\* is being collected
SweepBufferSound(inds, cur, pinds) ==
    inds # <<>> => ~isempty(cur) /\ pinds = <<>>

\* C24: at every point of the loop a non-empty sweep_inds implies a
\* non-empty current_sweep, and pulse_inds and sweep_inds are never both
\* non-empty; so a pulse sample that arrives with sweep samples buffered
\* never takes the error branch: the buffered samples are stored as one
\* sweep-group.
C24_SweepBufferInvariant ==
    [][ /\ SweepBufferSound(sweep_inds, current_sweep, pulse_inds)
        /\ SweepBufferSound(sweep_inds', current_sweep', pulse_inds')
        /\ Consuming /\ ~IsSweepSample(Arriving) /\ sweep_inds # <<>>
            => /\ Len(sweeps') = Len(sweeps) + 1
               /\ sweeps'[Len(sweeps')].samples = subset(D, sweep_inds) ]_vars

\* buffered sweep samples were stored as a sweep-group at the arrival of a
\* pulse sample, and sweep samples are buffered again
C24_Witness ==
    /\ sweep_inds # <<>>
    /\ sweeps # <<>>
    /\ \E n \in 1..Len(D) : D[n] \in Members(sweeps[Len(sweeps)].samples)

\* the step flushes the first pulse set of the stream
FirstFlush == Flushing /\ last_pulse_epoch = InitialPulseEpoch

\* C25 as stated: the first pulse set flushed is given channel err whatever
\* its timestamps, lengths and size: it is not emitted, seq stays 0,
\* current_sweep stays empty and a sweep sample consumed by the step is
\* dropped.
C25_FirstPulseIsErr ==
    [][ FirstFlush
            => /\ FlushedChannel = "e"
               /\ pulses' = pulses
               /\ seq' = seq
               /\ isempty(current_sweep')
               /\ sweep_inds' = <<>> ]_vars

====
